---- MODULE Spec2Model ----
(***************************************************************************)
(* The beatmap decoder of osu-parsers: BeatmapDecoder.decodeFromLines and  *)
(* the control-point grouping engine TimingPointHandler.                   *)
(*                                                                         *)
(* Two BeatmapDecoder classes exist in the sources: src/core/Decoders      *)
(* (options object, offset assignment commented out) and src/Decoders      *)
(* (boolean parseSb, offset derived from the header).  `impl` says which   *)
(* of the two classes the decoder instance is.  Both use the same          *)
(* TimingPointHandler, whose fields are static (one per process).          *)
(*                                                                         *)
(* The input of a decode is revealed line by line: `_lines` holds the      *)
(* lines known so far and `i` is the loop index of decodeFromLines.        *)
(*                                                                         *)
(* Spec decodes inputs that mix the Events, TimingPoints and HitObjects    *)
(* sections.  SpecTimingPoints, SpecHitObjects and SpecEvents decode       *)
(* inputs of one kind of section each, and SpecOptions enters              *)
(* decodeFromLines with every form of the options argument.                *)
(* SpecFirstDecode is the first decode of a process, SpecValid decodes     *)
(* inputs that start with a version header, SpecVersionText inputs with    *)
(* the version text on later lines, SpecFields single TimingPoints lines   *)
(* of every number of fields, and SpecPaths is decodeFromPath with calls   *)
(* that overlap at its awaits.                                             *)
(***************************************************************************)
EXTENDS Integers, Sequences, FiniteSets, TLC

\* ------------------------------------------------------------------ bounds
\* Longest input, in lines (header line included).
MaxLines == 5
\* Largest time value written in a TimingPoints or HitObjects line.
MaxTime == 1
\* Number of decodeFromLines calls made in one process.
MaxCalls == 2

\* ------------------------------------------------------- program constants
EARLY_VERSION_TIMING_OFFSET == 24

VARIABLES
  impl,              \* "core" | "legacy": the BeatmapDecoder class in use
  calls,             \* decodeFromLines calls started so far
  pc,                \* position of the decoder: idle, parse, defaults, sort,
                     \* storyboard, returned, thrown
  options,           \* the options argument of the current decodeFromLines
  _lines,            \* this._lines (the lines revealed so far)
  i,                 \* loop index of the parse loop (lines already parsed)
  _section,          \* this._section ("" = none yet)
  _enabledSections,  \* this._enabledSections
  _offset,           \* this._offset
  _sbLines,          \* this._sbLines: [null, items]
  pendingTime,       \* TimingPointHandler.pendingTime      (static)
  pendingTypes,      \* TimingPointHandler.pendingTypes     (static)
  pendingPoints,     \* TimingPointHandler.pendingPoints    (static)
  controlPointsRef,  \* TimingPointHandler.controlPoints    (static): which
                     \* beatmap's collection it references
  fileFormat,        \* beatmap.fileFormat
  controlPoints,     \* beatmap.controlPoints: set of [time, point] slots
  hitObjects,        \* beatmap.hitObjects
  events,            \* beatmap.events (ordinary events, by line number)
  storyboard,        \* beatmap.events.storyboard: [set, lines]
  defaultsApplied,   \* hit objects that had applyDefaults called
  dispatched,        \* section handlers called in this decode, in order
  handled,           \* what the last handleLine of this decode decoded and
                     \* built: <<>> or <<[locals, points]>>
  path,              \* the decodeFromPath calls: call id -> [st, ...]
  running            \* the decodeFromPath call whose synchronous code is
                     \* executing (0 = none)

\* the state decodeFromLines and TimingPointHandler work on
decoderVars ==
  <<impl, calls, pc, options, _lines, i, _section, _enabledSections, _offset,
    _sbLines, pendingTime, pendingTypes, pendingPoints, controlPointsRef,
    fileFormat, controlPoints, hitObjects, events, storyboard,
    defaultsApplied, dispatched, handled>>

\* the state of the decodeFromPath wrappers
pathVars == <<path, running>>

vars == <<impl, calls, pc, options, _lines, i, _section, _enabledSections, _offset,
          _sbLines, pendingTime, pendingTypes, pendingPoints, controlPointsRef,
          fileFormat, controlPoints, hitObjects, events, storyboard,
          defaultsApplied, dispatched, handled, path, running>>

\* -------------------------------------------------------------- the input
Times == 0..MaxTime
Versions == {4, 14}

FormatLine(v) == [kind |-> "format", name |-> "", data |-> <<v>>]
SectionLine(s) == [kind |-> "section", name |-> s, data |-> <<>>]
ContentLine(s, d) == [kind |-> "content", name |-> s, data |-> d]

Sections == {"Events", "TimingPoints", "HitObjects"}

\* Parsing.parseFloat(data[1]) is a double.  The beatLength field of a line
\* is written here as a whole number of 1/Unit milliseconds (a binary
\* fraction, so the text of the line parses to exactly that double).
Unit == 4096
Ms(x) == x * Unit

\* time,beatLength[,meter,sampleSet,sampleIndex,volume,uninherited[,effects]]
\* The uninherited field is kept as the text of the line, since the code
\* compares the text; the other fields are the numbers the text parses to.
TimingData ==
  UNION {{ <<t, Ms(500)>>,                         \* two fields: all defaults
           <<t, Ms(-100), 4, 0, 0, 100, "0">> }    \* inherited point
         : t \in Times}
    \cup {<<0, Ms(500), 0>>}                       \* time signature 0

\* a hit-object line, reduced to its time field
HitData == {<<t>> : t \in Times}

\* an Events line: <<1>> belongs to the storyboard grammar, <<0>> does not
EventData == {<<0>>, <<1>>}

ContentOf(s) ==
  IF s = "TimingPoints" THEN TimingData
  ELSE IF s = "HitObjects" THEN HitData
  ELSE IF s = "Events" THEN EventData
  ELSE {}

\* lines that may follow the first one: the header of one of the sections
\* the input uses, or a content line written in the grammar of the section
\* it stands in
NextLines(section, used) ==
  {SectionLine(s) : s \in used}
    \cup {ContentLine(section, d) : d \in ContentOf(section)}

\* the possible first lines: a version header, or (invalid) a section header
FirstLines == {FormatLine(v) : v \in Versions} \cup {SectionLine("General")}

\* ------------------------------------------------------------ the options
\* The options argument: undefined, a boolean, or an object whose flags are
\* each true, false or absent.
Tri == {"undefined", "true", "false"}
Obj(sb, ev, tp, ho) ==
  [form |-> "object", bool |-> FALSE, parseStoryboard |-> sb, parseEvents |-> ev,
   parseTimingPoints |-> tp, parseHitObjects |-> ho]
Undefined ==
  [Obj("undefined", "undefined", "undefined", "undefined") EXCEPT !.form = "undefined"]
Bool(b) ==
  [Obj("undefined", "undefined", "undefined", "undefined")
     EXCEPT !.form = "boolean", !.bool = b]

\* every form of the argument (the legacy decoder takes parseSb = true only)
AllOptionForms(im) ==
  {Undefined, Bool(TRUE), Bool(FALSE)}
    \cup (IF im = "core"
          THEN {Obj(sb, ev, tp, ho) : sb \in Tri, ev \in Tri, tp \in Tri, ho \in Tri}
          ELSE {})

\* the forms the decodes of Spec are run with
OptionForms(im) ==
  {Undefined, Bool(TRUE), Bool(FALSE)}
    \cup (IF im = "core"
          THEN {Obj("true", "false", "undefined", "undefined"),
                Obj("false", "undefined", "undefined", "undefined")}
          ELSE {})

\* options?.flag ?? true
FlagOrTrue(o, flag) ==
  IF o.form = "object" /\ flag # "undefined" THEN flag = "true" ELSE TRUE

SetEnabledSections(o, enabled) ==
  IF o.form = "boolean" THEN enabled
  ELSE [Events |-> FlagOrTrue(o, o.parseEvents),
        TimingPoints |-> FlagOrTrue(o, o.parseTimingPoints),
        HitObjects |-> FlagOrTrue(o, o.parseHitObjects)]

\* parsingOptions?.parseStoryboard ?? options
StoryboardFlag(o) ==
  IF o.form = "object" /\ o.parseStoryboard # "undefined" THEN o.parseStoryboard
  ELSE IF o.form = "boolean" THEN (IF o.bool THEN "true" ELSE "false")
  ELSE "notboolean"

\* _shouldParseStoryboard looking at the storyboard flag alone
ShouldParseStoryboardIgnoringEvents(o) ==
  LET storyboardFlag == StoryboardFlag(o)
  IN  IF storyboardFlag \in {"true", "false"} THEN storyboardFlag = "true" ELSE TRUE

ShouldParseStoryboard(o) ==
  LET storyboardFlag == StoryboardFlag(o)
      parseSb == IF storyboardFlag \in {"true", "false"}
                 THEN storyboardFlag = "true" ELSE TRUE
      parseEvents == FlagOrTrue(o, o.parseEvents)
  IN  parseEvents /\ parseSb

\* the parseSb = true parameter of the legacy decoder
LegacyParseSb(o) == IF o.form = "boolean" THEN o.bool ELSE TRUE

\* this._sbLines: null, or an array; stale says the array was created by an
\* earlier call
NullLines == [null |-> TRUE, stale |-> FALSE, items |-> <<>>]
EmptyLines == [null |-> FALSE, stale |-> FALSE, items |-> <<>>]

\* ------------------------------------------------- control-point grouping
\* a control point: its kind, the start time handleLine computed for it, the
\* line it was decoded from, and whether an earlier decode call created it
Point(type, time, line) ==
  [pointType |-> type, time |-> time, line |-> line, stale |-> FALSE]

Includes(seq, x) == \E k \in 1..Len(seq) : seq[k] = x

\* ControlPointInfo.add(point, time): the group at `time` holds one slot per
\* kind; a later write to the same kind replaces the slot
ControlPointInfoAdd(cp, point, time) ==
  {e \in cp : ~(e.time = time /\ e.point.pointType = point.pointType)}
    \cup {[time |-> time, point |-> point]}

\* the loop of flushPendingPoints skipping a kind the group at the pending
\* timestamp already holds
RECURSIVE FlushScanKeepExisting(_, _, _, _, _)
FlushScanKeepExisting(k, points, time, types, cp) ==
  IF k < 1 THEN cp
  ELSE IF \/ Includes(types, points[k].pointType)
          \/ \E e \in cp : e.time = time /\ e.point.pointType = points[k].pointType
       THEN FlushScanKeepExisting(k - 1, points, time, types, cp)
       ELSE FlushScanKeepExisting(k - 1, points, time,
                                  Append(types, points[k].pointType),
                                  ControlPointInfoAdd(cp, points[k], time))

\* the while (--i >= 0) loop of flushPendingPoints
RECURSIVE FlushScan(_, _, _, _, _)
FlushScan(k, points, time, types, cp) ==
  IF k < 1 THEN cp
  ELSE IF Includes(types, points[k].pointType)
       THEN FlushScan(k - 1, points, time, types, cp)
       ELSE FlushScan(k - 1, points, time,
                      Append(types, points[k].pointType),
                      ControlPointInfoAdd(cp, points[k], time))

\* flushPendingPoints scanning the buffer front to back (first push wins)
RECURSIVE FlushScanForward(_, _, _, _, _)
FlushScanForward(k, points, time, types, cp) ==
  IF k > Len(points) THEN cp
  ELSE IF Includes(types, points[k].pointType)
       THEN FlushScanForward(k + 1, points, time, types, cp)
       ELSE FlushScanForward(k + 1, points, time,
                             Append(types, points[k].pointType),
                             ControlPointInfoAdd(cp, points[k], time))

flushPendingPointsForward(s) ==
  [s EXCEPT !.cp = IF s.ref = "current"
                   THEN FlushScanForward(1, s.pendingPoints, s.pendingTime,
                                         s.pendingTypes, s.cp)
                   ELSE s.cp,
            !.pendingPoints = <<>>,
            !.pendingTypes = <<>>]

\* flushPendingPoints leaving the flushed points in the buffer
flushPendingPointsKeepBuffer(s) ==
  [s EXCEPT !.cp = IF s.ref = "current"
                   THEN FlushScan(Len(s.pendingPoints), s.pendingPoints,
                                  s.pendingTime, s.pendingTypes, s.cp)
                   ELSE s.cp,
            !.pendingTypes = <<>>]

\* The state of the handler is a record s = [pendingTime, pendingPoints,
\* pendingTypes, ref, cp]: cp is the collection of the beatmap being decoded.
\* When ref is "earlier" the static reference still names the collection of
\* an earlier call's beatmap and the commits go there, not to cp.
flushPendingPoints(s) ==
  [s EXCEPT !.cp = IF s.ref = "current"
                   THEN FlushScan(Len(s.pendingPoints), s.pendingPoints,
                                  s.pendingTime, s.pendingTypes, s.cp)
                   ELSE s.cp,
            !.pendingPoints = <<>>,
            !.pendingTypes = <<>>]

\* addControlPoint without the flush on a change of time
addControlPointNoFlush(s, point, time) ==
  [s EXCEPT !.pendingPoints = Append(@, point), !.pendingTime = time]

\* addControlPoint updating the pending timestamp before the flush
addControlPointTimeFirst(s, point, time) ==
  LET s0 == [s EXCEPT !.pendingTime = time]
      s1 == IF time # s.pendingTime THEN flushPendingPoints(s0) ELSE s0
  IN  [s1 EXCEPT !.pendingPoints = Append(@, point)]

addControlPoint(s, point, time) ==
  LET s1 == IF time # s.pendingTime THEN flushPendingPoints(s) ELSE s
  IN  [s1 EXCEPT !.pendingPoints = Append(@, point), !.pendingTime = time]

\* the switch (data.length) without the default label
SwitchEntryNoDefault(n) == IF n \in 3..8 THEN n ELSE 0

\* the switch (data.length) with fall-through: the case label entered
SwitchEntry(n) == IF n \in 3..8 THEN n ELSE 8

TimeSignatureOf(data) ==
  IF Len(data) > 2 /\ SwitchEntry(Len(data)) >= 3 THEN data[3] ELSE 4

TimingChangeOf(data) ==
  IF Len(data) > 2 /\ SwitchEntry(Len(data)) >= 7 THEN data[7] = "1" ELSE TRUE

\* a case label of the switch is executed: the switch is entered at this
\* label or at a higher one and falls through
Falls(data, label) == Len(data) > 2 /\ SwitchEntry(Len(data)) >= label

\* enum members of osu-classes
SampleSetNone == 0
EffectTypeNone == 0
EffectTypeKiai == 1
EffectTypeOmitFirstBarLine == 2

SampleSetOf(data) == IF Falls(data, 4) THEN data[4] ELSE SampleSetNone
CustomIndexOf(data) == IF Falls(data, 5) THEN data[5] ELSE 0
VolumeOf(data) == IF Falls(data, 6) THEN data[6] ELSE 100
EffectsOf(data) == IF Falls(data, 8) THEN data[8] ELSE EffectTypeNone

\* a & mask for a >= 0 and a mask of one bit
BitAnd(a, mask) == IF (a \div mask) % 2 = 1 THEN mask ELSE 0

\* the number of binary digits of n > 0
RECURSIVE BitLength(_)
BitLength(n) == IF n < 1 THEN 0 ELSE 1 + BitLength(n \div 2)

\* Math.fround(x) returning x
FRoundExact(n) == n

\* Math.fround(x) for x = n / Unit > 0: the nearest number with a significand
\* of 24 binary digits, ties to the even significand
FRound(n) ==
  IF BitLength(n) <= 24 THEN n
  ELSE LET ulp == 2 ^ (BitLength(n) - 24)
           q == n \div ulp
           r == n % ulp
       IN  IF 2 * r > ulp \/ (2 * r = ulp /\ q % 2 = 1)
           THEN (q + 1) * ulp
           ELSE q * ulp

\* Math.min(a, b), Math.max(a, b)
MathMin(a, b) == IF a < b THEN a ELSE b
MathMax(a, b) == IF a > b THEN a ELSE b

\* a quotient of doubles, kept as the fraction it is the value of
Quotient(num, den) == [num |-> num, den |-> den]
One == Quotient(1, 1)

\* lines 311-318: beatLength is in 1/Unit ms
BpmMultiplierOf(beatLength) ==
  IF beatLength < 0
  THEN Quotient(MathMax(Ms(10), MathMin(FRound(-beatLength), Ms(10000))), Ms(100))
  ELSE One

SpeedMultiplierOf(beatLength) ==
  IF beatLength < 0 THEN Quotient(Ms(100), -beatLength) ELSE One

\* the local variables of handleLine once the line is decoded
Locals(data, offset) ==
  [timeSignature |-> TimeSignatureOf(data),
   sampleSet |-> SampleSetOf(data),
   customIndex |-> CustomIndexOf(data),
   volume |-> VolumeOf(data),
   timingChange |-> TimingChangeOf(data),
   effects |-> EffectsOf(data),
   beatLength |-> data[2],
   startTime |-> data[1] + offset,
   bpmMultiplier |-> BpmMultiplierOf(data[2]),
   speedMultiplier |-> SpeedMultiplierOf(data[2])]

\* the fields handleLine sets on the point of this kind
ValueOf(type, l) ==
  CASE type = "Timing" ->
         [beatLength |-> l.beatLength, timeSignature |-> l.timeSignature]
    [] type = "Difficulty" ->
         [bpmMultiplier |-> l.bpmMultiplier, speedMultiplier |-> l.speedMultiplier]
    [] type = "Effect" ->
         [kiai |-> BitAnd(l.effects, EffectTypeKiai) > 0,
          omitFirstBarLine |-> BitAnd(l.effects, EffectTypeOmitFirstBarLine) > 0]
    [] type = "Sample" ->
         [sampleSet |-> l.sampleSet, customIndex |-> l.customIndex,
          volume |-> l.volume]

\* the Timing point pushed only for a beatLength that is not negative
LinePointsBySign(data, startTime, line) ==
  (IF data[2] >= 0 THEN <<Point("Timing", startTime, line)>> ELSE <<>>)
    \o <<Point("Difficulty", startTime, line),
         Point("Effect", startTime, line),
         Point("Sample", startTime, line)>>

\* the points one line pushes, in push order
LinePoints(data, startTime, line) ==
  (IF TimingChangeOf(data) THEN <<Point("Timing", startTime, line)>> ELSE <<>>)
    \o <<Point("Difficulty", startTime, line),
         Point("Effect", startTime, line),
         Point("Sample", startTime, line)>>

RECURSIVE AddAll(_, _, _)
AddAll(s, points, time) ==
  IF points = <<>> THEN s
  ELSE AddAll(addControlPoint(s, Head(points), time), Tail(points), time)

\* handleLine rejecting negative numerators only
handleLineNegativeOnly(data, line, offset, s) ==
  LET s0 == [s EXCEPT !.ref = "current"]
      startTime == data[1] + offset
  IN  IF TimeSignatureOf(data) < 0
      THEN [ok |-> FALSE, s |-> s0]
      ELSE [ok |-> TRUE,
            s |-> AddAll(s0, LinePoints(data, startTime, line), startTime)]

\* TimingPointHandler.handleLine: [ok, s]
handleLine(data, line, offset, s) ==
  LET s0 == [s EXCEPT !.ref = "current"]
      startTime == data[1] + offset
  IN  IF TimeSignatureOf(data) < 1
      THEN [ok |-> FALSE, s |-> s0]
      ELSE [ok |-> TRUE,
            s |-> AddAll(s0, LinePoints(data, startTime, line), startTime)]

\* what handleLine decoded and the points it handed to addControlPoint, in
\* the order of the calls
Built(data, line, offset) ==
  LET l == Locals(data, offset)
      pushes == LinePoints(data, l.startTime, line)
  IN  [locals |-> l,
       points |-> [k \in 1..Len(pushes) |->
                     [pointType |-> pushes[k].pointType,
                      time |-> pushes[k].time,
                      value |-> ValueOf(pushes[k].pointType, l)]]]

Handler ==
  [pendingTime |-> pendingTime, pendingPoints |-> pendingPoints,
   pendingTypes |-> pendingTypes, ref |-> controlPointsRef,
   cp |-> controlPoints]

SetHandler(s) ==
  /\ pendingTime' = s.pendingTime
  /\ pendingPoints' = s.pendingPoints
  /\ pendingTypes' = s.pendingTypes
  /\ controlPointsRef' = s.ref
  /\ controlPoints' = s.cp

\* ------------------------------------------------------------ hit objects
\* Array.prototype.sort((a, b) => a.startTime - b.startTime): a stable sort
RECURSIVE InsertSorted(_, _)
InsertSorted(sorted, h) ==
  IF sorted = <<>> THEN <<h>>
  ELSE IF Head(sorted).startTime - h.startTime > 0
       THEN <<h>> \o sorted
       ELSE <<Head(sorted)>> \o InsertSorted(Tail(sorted), h)

RECURSIVE SortFrom(_, _)
SortFrom(sorted, rest) ==
  IF rest = <<>> THEN sorted
  ELSE SortFrom(InsertSorted(sorted, Head(rest)), Tail(rest))

\* a sort that puts an object before the objects of equal start time
RECURSIVE InsertBeforeEqual(_, _)
InsertBeforeEqual(sorted, h) ==
  IF sorted = <<>> THEN <<h>>
  ELSE IF Head(sorted).startTime - h.startTime >= 0
       THEN <<h>> \o sorted
       ELSE <<Head(sorted)>> \o InsertBeforeEqual(Tail(sorted), h)

RECURSIVE SortFromUnstable(_, _)
SortFromUnstable(sorted, rest) ==
  IF rest = <<>> THEN sorted
  ELSE SortFromUnstable(InsertBeforeEqual(sorted, Head(rest)), Tail(rest))

SortHitObjectsUnstable(objects) == SortFromUnstable(<<>>, objects)

SortHitObjects(objects) == SortFrom(<<>>, objects)

\* --------------------------------------------------------- decodeFromPath
\* the decodeFromPath calls of one process, numbered in the order they are
\* made
CallIds == 1..MaxCalls

\* a call: st is new, reading (the file is being read), decoding, dating
\* (the update date is being fetched), returned or failed; ext says whether
\* the path ends with .osu; read and decoded say whether the file read and
\* the decode were started; dated whether fileUpdateDate was set; cause is
\* the message of the error first thrown; wrapped and reason describe the
\* error the caller gets: 'Failed to decode a beatmap! Reason: ' + reason
\* when wrapped, reason alone when not
NotCalled ==
  [st |-> "new", ext |-> TRUE, read |-> FALSE, decoded |-> FALSE,
   dated |-> FALSE, cause |-> "", wrapped |-> FALSE, reason |-> ""]

\* ------------------------------------------------------------------- Init
Init ==
  /\ impl \in {"core", "legacy"}
  /\ calls = 0
  /\ pc = "idle"
  /\ options = Undefined
  /\ _lines = <<>>
  /\ i = 0
  /\ _section = ""
  /\ _enabledSections = [Events |-> TRUE, TimingPoints |-> TRUE, HitObjects |-> TRUE]
  /\ _offset = 0
  /\ _sbLines = NullLines
  /\ pendingTime = 0
  /\ pendingTypes = <<>>
  /\ pendingPoints = <<>>
  /\ controlPointsRef = "none"
  /\ fileFormat = 0
  /\ controlPoints = {}
  /\ hitObjects = <<>>
  /\ events = <<>>
  /\ storyboard = [set |-> FALSE, lines |-> <<>>]
  /\ defaultsApplied = {}
  /\ dispatched = <<>>
  /\ handled = <<>>
  /\ path = [c \in CallIds |-> NotCalled]
  /\ running = 0

\* ------------------------------------------------------ decodeFromLines
\* decodeFromLines without the check of the first line
HeaderOkAlways(line) == TRUE

\* fileFormatLine.startsWith('osu file format v')
HeaderOk(line) == line.kind = "format"

\* what is left of an earlier call is marked as such
MarkStale(seq) == [k \in 1..Len(seq) |-> [seq[k] EXCEPT !.stale = TRUE, !.line = 0]]

SbLinesAtBegin(im, o, old) ==
  IF im = "core"
  THEN (IF ShouldParseStoryboard(o) THEN EmptyLines ELSE NullLines)
  ELSE (IF LegacyParseSb(o) THEN EmptyLines
        ELSE [old EXCEPT !.items = MarkStale(@), !.stale = ~old.null])

\* new Beatmap(), _reset(), _getLines, _setEnabledSections, _sbLines and the
\* check of the first line
Reset(o, data) ==
  /\ calls' = calls + 1
  /\ options' = o
  /\ _lines' = data
  /\ _enabledSections' =
       IF impl = "core" THEN SetEnabledSections(o, _enabledSections)
       ELSE _enabledSections
  /\ _sbLines' = SbLinesAtBegin(impl, o, _sbLines)
  /\ pc' = IF data # <<>> /\ HeaderOk(data[1]) THEN "parse" ELSE "thrown"
  /\ i' = 0
  /\ _section' = ""
  /\ fileFormat' = 0
  /\ controlPoints' = {}
  /\ hitObjects' = <<>>
  /\ events' = <<>>
  /\ storyboard' = [set |-> FALSE, lines |-> <<>>]
  /\ defaultsApplied' = {}
  /\ dispatched' = <<>>
  /\ handled' = <<>>
  /\ pendingPoints' = MarkStale(pendingPoints)
  /\ controlPointsRef' =
       IF controlPointsRef = "current"
       THEN (IF pc = "returned" THEN "returned" ELSE "earlier")
       ELSE controlPointsRef
  /\ UNCHANGED <<impl, _offset, pendingTime, pendingTypes>>

\* a call of decodeFromLines made when no decode is under way
Begin(o, data) ==
  /\ pc \in {"idle", "returned", "thrown"}
  /\ calls < MaxCalls
  /\ Reset(o, data)

FirstInputs == {<<>>} \cup {<<l>> : l \in FirstLines}

DecodeBegin ==
  /\ \E o \in OptionForms(impl), data \in FirstInputs : Begin(o, data)
  /\ UNCHANGED pathVars

OffsetOf(im, version, old) ==
  IF im = "legacy"
  THEN (IF version <= 4 THEN EARLY_VERSION_TIMING_OFFSET ELSE 0)
  ELSE old

\* _parseLine on a line holding the version text
ParseFormatLine(line) ==
  /\ fileFormat' = line.data[1]
  /\ _offset' = OffsetOf(impl, line.data[1], _offset)
  /\ pc' = "parse"
  /\ UNCHANGED <<_section, _sbLines, pendingTime, pendingTypes, pendingPoints,
                 controlPointsRef, controlPoints, hitObjects, events, dispatched,
                 handled>>

\* SectionDecoder._parseLine on a [Name] line
ParseSectionLine(line) ==
  /\ _section' = line.name
  /\ pc' = "parse"
  /\ UNCHANGED <<fileFormat, _offset, _sbLines, pendingTime, pendingTypes,
                 pendingPoints, controlPointsRef, controlPoints, hitObjects,
                 events, dispatched, handled>>

TimingPointsLine(line, no) ==
  LET r == handleLine(line.data, no, _offset, Handler)
  IN  /\ SetHandler(r.s)
      /\ pc' = IF r.ok THEN "parse" ELSE "thrown"
      /\ handled' = IF r.ok THEN <<Built(line.data, no, _offset)>> ELSE <<>>
      /\ UNCHANGED <<_sbLines, hitObjects, events>>

HitObjectsLine(line, no) ==
  /\ hitObjects' = Append(hitObjects,
                          [startTime |-> line.data[1] + _offset, line |-> no])
  /\ pc' = "parse"
  /\ UNCHANGED <<_sbLines, pendingTime, pendingTypes, pendingPoints,
                 controlPointsRef, controlPoints, events, handled>>

EventsLine(line, no) ==
  /\ IF line.data[1] = 1
     THEN /\ _sbLines' = IF _sbLines.null THEN _sbLines
                         ELSE [_sbLines EXCEPT
                                 !.items = Append(@, [line |-> no, stale |-> FALSE])]
          /\ events' = events
     ELSE /\ events' = Append(events, no)
          /\ _sbLines' = _sbLines
  /\ pc' = "parse"
  /\ UNCHANGED <<pendingTime, pendingTypes, pendingPoints, controlPointsRef,
                 controlPoints, hitObjects, handled>>

\* SectionDecoder._parseLine on a content line, then _parseSectionData
ParseContentLine(line, no) ==
  /\ UNCHANGED <<fileFormat, _offset, _section>>
  /\ IF _section \in Sections /\ _enabledSections[_section]
     THEN /\ dispatched' = Append(dispatched, _section)
          /\ CASE _section = "TimingPoints" -> TimingPointsLine(line, no)
               [] _section = "HitObjects" -> HitObjectsLine(line, no)
               [] _section = "Events" -> EventsLine(line, no)
     ELSE /\ pc' = "parse"
          /\ UNCHANGED <<_sbLines, pendingTime, pendingTypes, pendingPoints,
                         controlPointsRef, controlPoints, hitObjects, events,
                         dispatched, handled>>

\* one turn of the parse loop; `next` holds the lines the input may go on
\* with once the lines revealed so far are parsed
ParseLineFrom(next) ==
  /\ pc = "parse"
  /\ \E line \in (IF i < Len(_lines) THEN {_lines[i + 1]}
                  ELSE IF Len(_lines) < MaxLines THEN next
                  ELSE {}) :
       /\ _lines' = IF i < Len(_lines) THEN _lines ELSE Append(_lines, line)
       /\ i' = i + 1
       /\ CASE line.kind = "format" -> ParseFormatLine(line)
            [] line.kind = "section" -> ParseSectionLine(line)
            [] line.kind = "content" -> ParseContentLine(line, i + 1)
  /\ UNCHANGED <<impl, calls, options, _enabledSections, storyboard, defaultsApplied>>
  /\ UNCHANGED pathVars

\* one turn of the parse loop, on an input that uses these sections
ParseLineOf(used) == ParseLineFrom(NextLines(_section, used))

ParseLine == ParseLineOf(Sections)

\* decodeFromLines going on to the defaults without the last flush
FinalFlushSkipped ==
  /\ pc = "parse"
  /\ i = Len(_lines)
  /\ pc' = "defaults"
  /\ UNCHANGED <<impl, calls, options, _lines, i, _section, _enabledSections,
                 _offset, _sbLines, pendingTime, pendingTypes, pendingPoints,
                 controlPointsRef, fileFormat, controlPoints, hitObjects,
                 events, storyboard, defaultsApplied, dispatched, handled,
                 path, running>>

\* the loop has ended: BeatmapTimingPointDecoder.flushPendingPoints()
FinalFlush ==
  /\ pc = "parse"
  /\ i = Len(_lines)
  /\ SetHandler(flushPendingPoints(Handler))
  /\ pc' = "defaults"
  /\ UNCHANGED <<impl, calls, options, _lines, i, _section, _enabledSections, _offset,
                 _sbLines, fileFormat, hitObjects, events, storyboard,
                 defaultsApplied, dispatched, handled,
                 path, running>>

\* the loop of applyDefaults placed before the final flush
ApplyDefaultsBeforeFlush ==
  /\ pc \in {"parse", "defaults"}
  /\ i = Len(_lines)
  /\ defaultsApplied' = {hitObjects[k].line : k \in 1..Len(hitObjects)}
  /\ pc' = IF pc = "parse" THEN "parse" ELSE "sort"
  /\ UNCHANGED <<impl, calls, options, _lines, i, _section, _enabledSections, _offset,
                 _sbLines, pendingTime, pendingTypes, pendingPoints,
                 controlPointsRef, fileFormat, controlPoints, hitObjects,
                 events, storyboard, dispatched, handled, path, running>>

\* applyDefaults on every hit object
ApplyDefaults ==
  /\ pc = "defaults"
  /\ defaultsApplied' = {hitObjects[k].line : k \in 1..Len(hitObjects)}
  /\ pc' = "sort"
  /\ UNCHANGED <<impl, calls, options, _lines, i, _section, _enabledSections, _offset,
                 _sbLines, pendingTime, pendingTypes, pendingPoints,
                 controlPointsRef, fileFormat, controlPoints, hitObjects,
                 events, storyboard, dispatched, handled,
                 path, running>>

SortStep ==
  /\ pc = "sort"
  /\ hitObjects' = SortHitObjects(hitObjects)
  /\ pc' = "storyboard"
  /\ UNCHANGED <<impl, calls, options, _lines, i, _section, _enabledSections, _offset,
                 _sbLines, pendingTime, pendingTypes, pendingPoints,
                 controlPointsRef, fileFormat, controlPoints, events,
                 storyboard, defaultsApplied, dispatched, handled,
                 path, running>>

\* the final if of decodeFromLines testing only that the buffer exists
DecodesStoryboardUnguarded(im, o, sb) == ~sb.null

\* the condition of the final if of decodeFromLines
DecodesStoryboard(im, o, sb) ==
  IF im = "core" THEN ~sb.null /\ Len(sb.items) > 0
  ELSE LegacyParseSb(o) /\ ~sb.null /\ Len(sb.items) > 0

StoryboardStep ==
  /\ pc = "storyboard"
  /\ storyboard' = IF DecodesStoryboard(impl, options, _sbLines)
                   THEN [set |-> TRUE, lines |-> _sbLines.items]
                   ELSE storyboard
  /\ pc' = "returned"
  /\ UNCHANGED <<impl, calls, options, _lines, i, _section, _enabledSections, _offset,
                 _sbLines, pendingTime, pendingTypes, pendingPoints,
                 controlPointsRef, fileFormat, controlPoints, hitObjects,
                 events, defaultsApplied, dispatched, handled,
                 path, running>>

Next ==
  \/ DecodeBegin
  \/ ParseLine
  \/ FinalFlush
  \/ ApplyDefaults
  \/ SortStep
  \/ StoryboardStep

Spec == Init /\ [][Next]_vars

\* decodeFromLines called without an options argument
NoOptionsBegin ==
  /\ \E data \in FirstInputs : Begin(Undefined, data)
  /\ UNCHANGED pathVars

\* Decodes of inputs that hold TimingPoints sections only, with no options
\* argument.  The inputs declare format version 4: the legacy decoder then
\* hands the offset 24 to handleLine and the core decoder the offset 0.
TimingPointsInputs == {<<>>, <<FormatLine(4)>>, <<SectionLine("General")>>}

TimingPointsBegin ==
  /\ \E data \in TimingPointsInputs : Begin(Undefined, data)
  /\ UNCHANGED pathVars

TimingPointsParseLine == ParseLineOf({"TimingPoints"})

NextTimingPoints ==
  \/ TimingPointsBegin
  \/ TimingPointsParseLine
  \/ FinalFlush
  \/ ApplyDefaults
  \/ SortStep
  \/ StoryboardStep

SpecTimingPoints == Init /\ [][NextTimingPoints]_vars

\* The first decode of a process, of an input that holds TimingPoints
\* sections only: the static fields of the handler are as the class sets
\* them.
FirstDecodeBegin ==
  /\ calls = 0
  /\ TimingPointsBegin

NextFirstDecode ==
  \/ FirstDecodeBegin
  \/ TimingPointsParseLine
  \/ FinalFlush
  \/ ApplyDefaults
  \/ SortStep
  \/ StoryboardStep

SpecFirstDecode == Init /\ [][NextFirstDecode]_vars

\* Decodes of one TimingPoints line each, the line drawn from every number
\* of fields from 2 to 9 and from beat lengths of either sign: around the
\* two clamps of the bpm multiplier, and between them with more binary
\* digits than a single-precision number holds.
BeatLengths ==
  {Ms(500), 0, -1, -Ms(10), -(Ms(10) + 1), -Ms(100),
   -(Ms(8192) + 1), -(Ms(8192) + 2), -(Ms(8192) + 3), -(Ms(8192) + 6),
   -Ms(10000), -Ms(10001)}

FullLines ==
  {<<t, b, 3, 2, 5, 70, u, e, 9>> :
     t \in Times, b \in BeatLengths, u \in {"0", "1", "01"}, e \in {0, 1, 2, 3, 8}}

FieldData ==
  {SubSeq(f, 1, n) : f \in FullLines, n \in 2..9} \cup {<<0, Ms(500), 0>>}

\* the lines that may follow the `known` lines of such an input
FieldLines(known) ==
  IF known = 2 THEN {ContentLine("TimingPoints", d) : d \in FieldData} ELSE {}

FieldsBegin ==
  /\ calls = 0
  /\ \E v \in Versions :
       Begin(Undefined, <<FormatLine(v), SectionLine("TimingPoints")>>)
  /\ UNCHANGED pathVars

FieldsParseLine == ParseLineFrom(FieldLines(Len(_lines)))

NextFields ==
  \/ FieldsBegin
  \/ FieldsParseLine
  \/ FinalFlush
  \/ ApplyDefaults
  \/ SortStep
  \/ StoryboardStep

SpecFields == Init /\ [][NextFields]_vars

\* Decodes of inputs that hold HitObjects sections only, with no options
\* argument.
HitObjectsParseLine == ParseLineOf({"HitObjects"})

NextHitObjects ==
  \/ NoOptionsBegin
  \/ HitObjectsParseLine
  \/ FinalFlush
  \/ ApplyDefaults
  \/ SortStep
  \/ StoryboardStep

SpecHitObjects == Init /\ [][NextHitObjects]_vars

\* Decodes of inputs that hold Events sections only, with the option forms
\* of Spec.
EventsParseLine == ParseLineOf({"Events"})

NextEvents ==
  \/ DecodeBegin
  \/ EventsParseLine
  \/ FinalFlush
  \/ ApplyDefaults
  \/ SortStep
  \/ StoryboardStep

SpecEvents == Init /\ [][NextEvents]_vars

\* decodeFromLines entered with every form of the options argument
OptionsNext ==
  /\ \E o \in AllOptionForms(impl), data \in FirstInputs : Begin(o, data)
  /\ UNCHANGED pathVars

SpecOptions == Init /\ [][OptionsNext]_vars

\* Decodes, with no options argument, of inputs that mix the three sections
\* and hold no line that aborts the decode.
ValidLines(section) ==
  {SectionLine(s) : s \in Sections}
    \cup {ContentLine(section, d) :
            d \in {x \in ContentOf(section) :
                     section = "TimingPoints" => TimeSignatureOf(x) >= 1}}

ValidParseLine == ParseLineFrom(ValidLines(_section))

NextValid ==
  \/ NoOptionsBegin
  \/ ValidParseLine
  \/ FinalFlush
  \/ ApplyDefaults
  \/ SortStep
  \/ StoryboardStep

SpecValid == Init /\ [][NextValid]_vars

\* Decodes, with no options argument, of inputs whose HitObjects sections
\* hold lines with the text 'osu file format v<n>' in them.
VersionTextLines == {FormatLine(v) : v \in Versions}

VersionTextParseLine ==
  ParseLineFrom(NextLines(_section, {"HitObjects"}) \cup VersionTextLines)

NextVersionText ==
  \/ NoOptionsBegin
  \/ VersionTextParseLine
  \/ FinalFlush
  \/ ApplyDefaults
  \/ SortStep
  \/ StoryboardStep

SpecVersionText == Init /\ [][NextVersionText]_vars

\* ------------------------------------------------------- decodeFromPath
\* The decoder of the core sources is asynchronous: it awaits the file read
\* and the update date, and between two awaits its code runs to completion
\* (one thread, no preemption).  The decoder of src/Decoders is synchronous
\* from the call to the return.
StaysRunning(im, c) == IF im = "core" THEN 0 ELSE c

\* the message of the error decodeFromLines threw
DecodeReason ==
  IF i > 0 THEN "The numerator of a time signature must be positive."
  ELSE IF _lines = <<>> THEN "Beatmap data not found!"
  ELSE "Not a valid beatmap!"

\* the call ends with an error raised outside the try block
Throws(call, message) ==
  [call EXCEPT !.st = "failed", !.cause = message,
               !.wrapped = FALSE, !.reason = message]

\* the error goes through the catch block of decodeFromPath, where there is
\* one
Caught(im, call, message) ==
  [call EXCEPT !.st = "failed", !.cause = message,
               !.wrapped = (im = "core"), !.reason = message]

\* decodeFromPath with a path that does not end with .osu
PathRejected(c) ==
  /\ running = 0
  /\ path[c].st = "new"
  /\ \A d \in CallIds : d < c => path[d].st # "new"
  /\ path' = [path EXCEPT ![c] = Throws([@ EXCEPT !.ext = FALSE],
                                        "Wrong file format!")]
  /\ UNCHANGED running
  /\ UNCHANGED decoderVars

\* decodeFromPath with a .osu path, up to the start of the file read
PathCall(c) ==
  /\ running = 0
  /\ path[c].st = "new"
  /\ \A d \in CallIds : d < c => path[d].st # "new"
  /\ path' = [path EXCEPT ![c].st = "reading", ![c].read = (impl = "core")]
  /\ running' = StaysRunning(impl, c)
  /\ UNCHANGED decoderVars

\* the file does not exist: _getFileBuffer throws inside the try block
\* (core); existsSync(path) is false and the read is not tried (src/Decoders)
FileMissing(c) ==
  /\ path[c].st = "reading"
  /\ running = StaysRunning(impl, c)
  /\ path' = [path EXCEPT ![c] = IF impl = "core"
                                 THEN Caught(impl, @, "File doesn't exists!")
                                 ELSE Throws(@, "File doesn't exists!")]
  /\ running' = 0
  /\ UNCHANGED decoderVars

\* the file exists and reading it fails
ReadFails(c) ==
  /\ path[c].st = "reading"
  /\ running = StaysRunning(impl, c)
  /\ path' = [path EXCEPT ![c] = Caught(impl, [@ EXCEPT !.read = TRUE],
                                        "read failed")]
  /\ running' = 0
  /\ UNCHANGED decoderVars

\* the file is read: decodeFromBuffer, decodeFromString, decodeFromLines
ReadDone(c) ==
  /\ path[c].st = "reading"
  /\ running = StaysRunning(impl, c)
  /\ \E data \in TimingPointsInputs : Reset(Undefined, data)
  /\ path' = [path EXCEPT ![c].st = "decoding", ![c].read = TRUE,
                           ![c].decoded = TRUE]
  /\ running' = c

\* an await reached at any place of decodeFromLines that has not thrown
AtAwaitAnywhere(p) == p # "thrown"

\* the place where decodeFromPath awaits the update date: after
\* decodeFromBuffer has returned
AtAwait(p) == p = "returned"

\* decodeFromBuffer returned the beatmap: await this._getFileUpdateDate(path)
AwaitDate(c) ==
  /\ running = c
  /\ path[c].st = "decoding"
  /\ AtAwait(pc)
  /\ path' = [path EXCEPT ![c].st = "dating"]
  /\ running' = StaysRunning(impl, c)
  /\ UNCHANGED decoderVars

\* decodeFromLines threw
DecodeThrows(c) ==
  /\ running = c
  /\ path[c].st = "decoding"
  /\ pc = "thrown"
  /\ path' = [path EXCEPT ![c] = Caught(impl, @, DecodeReason)]
  /\ running' = 0
  /\ UNCHANGED decoderVars

\* the update date cannot be fetched
DateFails(c) ==
  /\ path[c].st = "dating"
  /\ running = StaysRunning(impl, c)
  /\ path' = [path EXCEPT ![c] = Caught(impl, @, "stat failed")]
  /\ running' = 0
  /\ UNCHANGED decoderVars

\* beatmap.fileUpdateDate is set and the beatmap returned
DateDone(c) ==
  /\ path[c].st = "dating"
  /\ running = StaysRunning(impl, c)
  /\ path' = [path EXCEPT ![c].st = "returned", ![c].dated = TRUE]
  /\ running' = 0
  /\ UNCHANGED decoderVars

\* the lines a file read by decodeFromPath may go on with: the header of
\* the TimingPoints section, a line handleLine accepts, a line it rejects
PathLines(section) ==
  {SectionLine("TimingPoints")}
    \cup (IF section = "TimingPoints"
          THEN {ContentLine(section, <<0, Ms(500)>>),
                ContentLine(section, <<0, Ms(500), 0>>)}
          ELSE {})

PathParseLine == ParseLineFrom(PathLines(_section))

\* decodeFromPath calls, overlapping where the decoder is asynchronous, on
\* files that hold TimingPoints sections only
NextPaths ==
  \/ \E c \in CallIds : PathRejected(c)
  \/ \E c \in CallIds : PathCall(c)
  \/ \E c \in CallIds : FileMissing(c)
  \/ \E c \in CallIds : ReadFails(c)
  \/ \E c \in CallIds : ReadDone(c)
  \/ PathParseLine
  \/ FinalFlush
  \/ ApplyDefaults
  \/ SortStep
  \/ StoryboardStep
  \/ \E c \in CallIds : AwaitDate(c)
  \/ \E c \in CallIds : DecodeThrows(c)
  \/ \E c \in CallIds : DateFails(c)
  \/ \E c \in CallIds : DateDone(c)

SpecPaths == Init /\ [][NextPaths]_vars

\* ------------------------------------------------------------ the claims
\* the TimingPoints lines handed to handleLine so far in this decode
TimingLineNos ==
  {k \in 1..i : /\ _lines[k].kind = "content"
                /\ _lines[k].name = "TimingPoints"
                /\ _enabledSections.TimingPoints}

\* the time field of line k, as written in the input
ParsedTime(k) == _lines[k].data[1]

\* the start time the decoder gave to the points of line k
StartTime(k) == ParsedTime(k) + _offset

\* field 6 (uninherited) is absent, or present and equal to '1'
Uninherited(k) == Len(_lines[k].data) <= 6 \/ _lines[k].data[7] = "1"

\* line k produces a point of this kind
Produces(k, type) == type # "Timing" \/ Uninherited(k)

Kinds == {"Timing", "Difficulty", "Effect", "Sample"}

Max(S) == CHOOSE x \in S : \A y \in S : y <= x
Min(S) == CHOOSE x \in S : \A y \in S : x <= y

\* the points of this kind the group at time t holds
Slot(t, type) ==
  {e.point : e \in {x \in controlPoints : x.time = t /\ x.point.pointType = type}}

\* the TimingPoints lines with start time t
LinesAt(t) == {k \in TimingLineNos : StartTime(k) = t}

\* the lines with start time t follow one another: no TimingPoints line with
\* another time stands between them
Consecutive(t) ==
  \A k \in TimingLineNos :
    (Min(LinesAt(t)) < k /\ k < Max(LinesAt(t))) => StartTime(k) = t

\* C1: after a decode, for every run of consecutive TimingPoints lines with
\* one start time and for every kind, the group at that time holds the point
\* of the last line of the run that produced a point of that kind.
C1_LastLineOfRunWins ==
  pc = "returned" =>
    \A t \in {StartTime(k) : k \in TimingLineNos} :
      Consecutive(t) =>
        \A type \in Kinds :
          LET producers == {k \in LinesAt(t) : Produces(k, type)}
          IN  producers # {} =>
                Slot(t, type) = {Point(type, t, Max(producers))}

\* two lines at one time, the first uninherited and the second inherited:
\* the Timing point of the first and the Sample point of the second are kept
C1_Witness ==
  /\ pc = "returned"
  /\ \E a, b \in TimingLineNos :
       /\ b = a + 1
       /\ StartTime(a) = StartTime(b)
       /\ Uninherited(a) /\ ~Uninherited(b)
       /\ Slot(StartTime(a), "Timing") = {Point("Timing", StartTime(a), a)}
       /\ Slot(StartTime(a), "Sample") = {Point("Sample", StartTime(a), b)}

\* C2: the control-point collection of a returned beatmap holds only points
\* decoded from the lines of that call, whatever earlier calls (aborted ones
\* included) left behind.
C2_OnlyOwnPoints ==
  pc = "returned" =>
    \A e \in controlPoints :
      /\ ~e.point.stale
      /\ e.point.line \in TimingLineNos
      /\ e.time = StartTime(e.point.line)

\* the last time bucket: the TimingPoints lines at the end of the input that
\* share the start time of the last one
LastBucket ==
  {k \in TimingLineNos :
     \A j \in TimingLineNos : j >= k => StartTime(j) = StartTime(Max(TimingLineNos))}

\* C3: when decodeFromLines returns, the pending buffer is empty and the
\* last time bucket has been flushed into the group at its start time: for
\* every kind a line of the bucket produced, the group holds the point of
\* the last such line.
C3_LastBucketCommitted ==
  pc = "returned" =>
    /\ pendingPoints = <<>>
    /\ TimingLineNos # {} =>
         LET t == StartTime(Max(TimingLineNos))
         IN  \A type \in Kinds :
               LET producers == {k \in LastBucket : Produces(k, type)}
               IN  producers # {} =>
                     Slot(t, type) = {Point(type, t, Max(producers))}

\* an input whose only TimingPoints line is its last line: one group, at the
\* start time of that line
C3_Witness ==
  /\ pc = "returned"
  /\ TimingLineNos = {Len(_lines)}
  /\ {e.time : e \in controlPoints} = {StartTime(Len(_lines))}

\* the offset the format version calls for
LegacyOffset(version) == IF version <= 4 THEN 24 ELSE 0

\* C4: once the header is parsed the offset handed to the section handlers
\* is 24 for a format version <= 4 and 0 otherwise, and every control point
\* and hit object of this decode starts at its parsed time plus that offset.
C4_OffsetFromVersion ==
  (pc # "idle" /\ i >= 1) =>
    /\ _offset = LegacyOffset(fileFormat)
    /\ \A e \in controlPoints :
         ~e.point.stale =>
           e.point.time = ParsedTime(e.point.line) + LegacyOffset(fileFormat)
    /\ \A k \in 1..Len(hitObjects) :
         hitObjects[k].startTime =
           ParsedTime(hitObjects[k].line) + LegacyOffset(fileFormat)

\* C5: in every state every committed point sits in the group keyed by its
\* own start time, and no group holds two points of one kind.
C5_GroupsKeyedByTime ==
  /\ \A e \in controlPoints : e.time = e.point.time
  /\ \A e1, e2 \in controlPoints :
       (e1.time = e2.time /\ e1.point.pointType = e2.point.pointType) => e1 = e2

\* lines at times t1, t2, t1: the group at t1 was written by two flushes
C5_Witness ==
  /\ pc = "returned"
  /\ \E a, b, c \in TimingLineNos :
       /\ a < b /\ b < c
       /\ StartTime(a) = StartTime(c)
       /\ StartTime(a) # StartTime(b)
       /\ \A type \in Kinds : Cardinality(Slot(StartTime(a), type)) <= 1
       /\ Slot(StartTime(a), "Sample") # {}
       /\ Slot(StartTime(b), "Sample") # {}

\* the parsed time-signature numerator of a TimingPoints line
Numerator(data) == IF Len(data) > 2 THEN data[3] ELSE 4

\* this step hands a TimingPoints line to handleLine
HandlesTimingLine ==
  /\ pc = "parse"
  /\ i' = i + 1
  /\ _lines'[i'].kind = "content"
  /\ _lines'[i'].name = "TimingPoints"
  /\ _enabledSections.TimingPoints

\* C6: a TimingPoints line with a numerator < 1 makes the decode throw,
\* pushes nothing into the pending buffer and commits nothing, and no
\* beatmap is returned; a line with a numerator >= 1 does not throw.
C6_NumeratorValidated ==
  [][/\ HandlesTimingLine =>
          IF Numerator(_lines'[i'].data) < 1
          THEN /\ pc' = "thrown"
               /\ pendingPoints' = pendingPoints
               /\ pendingTime' = pendingTime
               /\ controlPoints' = controlPoints
          ELSE pc' = "parse"
     /\ pc = "thrown" => pc' # "returned"]_vars

\* the decode was aborted by a line with numerator 0 that followed a valid
\* line: the points of the valid line are still in the buffer
C6_Witness ==
  /\ pc = "thrown"
  /\ i >= 2
  /\ i \in TimingLineNos
  /\ Numerator(_lines[i].data) < 1
  /\ pendingPoints # <<>>
  /\ \A k \in 1..Len(pendingPoints) : pendingPoints[k].line = i - 1

\* C7: when the first line is not a version header the decode throws before
\* any line is parsed: nothing is dispatched, no control point of this call
\* is buffered or committed, no hit object exists and nothing is returned.
C7_HeaderRequired ==
  (calls >= 1 /\ Len(_lines) >= 1 /\ _lines[1].kind # "format") =>
    /\ pc = "thrown"
    /\ i = 0
    /\ dispatched = <<>>
    /\ controlPoints = {}
    /\ hitObjects = <<>>
    /\ ~storyboard.set
    /\ \A k \in 1..Len(pendingPoints) : pendingPoints[k].stale

\* an input starting with a section header, decoded after an aborted call
\* that left points in the buffer
C7_Witness ==
  /\ pc = "thrown"
  /\ _lines = <<SectionLine("General")>>
  /\ pendingPoints # <<>>

\* the HitObjects lines handed to the hit-object handler in this decode
HitLineNos ==
  {k \in 1..i : /\ _lines[k].kind = "content"
                /\ _lines[k].name = "HitObjects"
                /\ _enabledSections.HitObjects}

\* C8: the returned hit objects are the emitted ones, each once, in
\* non-decreasing order of start time, and objects of equal start time keep
\* the order in which they were emitted.
C8_SortedStable ==
  pc = "returned" =>
    /\ Len(hitObjects) = Cardinality(HitLineNos)
    /\ {hitObjects[k].line : k \in 1..Len(hitObjects)} = HitLineNos
    /\ \A k \in 1..Len(hitObjects) :
         hitObjects[k].startTime = StartTime(hitObjects[k].line)
    /\ \A a, b \in 1..Len(hitObjects) :
         a < b =>
           /\ hitObjects[a].startTime <= hitObjects[b].startTime
           /\ hitObjects[a].startTime = hitObjects[b].startTime =>
                hitObjects[a].line < hitObjects[b].line

\* three objects emitted out of time order, two of them at one time
C8_Witness ==
  /\ pc = "returned"
  /\ Len(hitObjects) = 3
  /\ \E a, b \in HitLineNos : a < b /\ ParsedTime(a) > ParsedTime(b)
  /\ \E a, b \in HitLineNos : a < b /\ ParsedTime(a) = ParsedTime(b)

\* the storyboard flag of the options, true by default
StoryboardOption(o) ==
  IF o.form = "boolean" THEN o.bool
  ELSE ~(o.form = "object" /\ o.parseStoryboard = "false")

\* the Events flag of the options, true by default
EventsOption(o) == ~(o.form = "object" /\ o.parseEvents = "false")

\* the content lines of the Events section read in this decode
EventsLineNos ==
  {k \in 1..i : _lines[k].kind = "content" /\ _lines[k].name = "Events"}

StoryboardLineNos == {k \in EventsLineNos : _lines[k].data[1] = 1}

Count(seq, x) == Cardinality({k \in 1..Len(seq) : seq[k] = x})

\* C9: the returned beatmap has a storyboard only if capture was enabled for
\* this decode and a storyboard line was captured in this decode (and then
\* it is decoded from exactly those lines); with storyboard parsing disabled
\* and the Events section enabled it has none, and every Events line was
\* still handed to the event handler.
C9_StoryboardOnlyWhenCaptured ==
  pc = "returned" =>
    /\ storyboard.set =>
         /\ StoryboardOption(options) /\ EventsOption(options)
         /\ _enabledSections.Events
         /\ StoryboardLineNos # {}
         /\ \A k \in 1..Len(storyboard.lines) : ~storyboard.lines[k].stale
         /\ {storyboard.lines[k].line : k \in 1..Len(storyboard.lines)}
              = StoryboardLineNos
    /\ (~StoryboardOption(options) /\ _enabledSections.Events) =>
         /\ ~storyboard.set
         /\ Count(dispatched, "Events") = Cardinality(EventsLineNos)
         /\ {events[k] : k \in 1..Len(events)} = EventsLineNos \ StoryboardLineNos

\* a decode with storyboard parsing disabled on an instance whose earlier
\* decode captured storyboard lines: the buffer of the earlier call is still
\* there, Events lines are dispatched, and no storyboard is set
C9_Witness ==
  /\ pc = "returned"
  /\ ~StoryboardOption(options)
  /\ _sbLines.stale
  /\ \E k \in 1..Len(_sbLines.items) : _sbLines.items[k].stale
  /\ StoryboardLineNos # {}
  /\ Count(dispatched, "Events") >= 1
  /\ ~storyboard.set

\* C10: for every form of the options argument the storyboard line buffer
\* is created by the call exactly when the storyboard flag (default true)
\* and the Events flag (default true) both hold, and a boolean argument
\* leaves the enabled sections as they were.
C10_BufferIffBothFlags ==
  [][calls' = calls + 1 =>
       /\ (~_sbLines'.null /\ ~_sbLines'.stale)
            <=> (StoryboardOption(options') /\ EventsOption(options'))
       /\ options'.form = "boolean" => _enabledSections' = _enabledSections]_vars

\* the boolean true given after a call that disabled the Events section: the
\* buffer is created and the section stays disabled
C10_Witness ==
  /\ calls = 2
  /\ options = Bool(TRUE)
  /\ ~_enabledSections.Events
  /\ _sbLines = EmptyLines

\* C11: decodeFromPath rejects a path without the .osu extension before the
\* file is read or decoded; every error raised while reading or decoding is
\* caught and raised again wrapped, with the original reason in its
\* message; a failed call has no update date attached, and a returned one
\* has.
C11_PathErrorsWrapped ==
  \A c \in CallIds :
    /\ (path[c].st # "new" /\ ~path[c].ext) =>
         (path[c].st = "failed" /\ ~path[c].read /\ ~path[c].decoded)
    /\ (path[c].st = "failed" /\ path[c].read) =>
         (path[c].wrapped /\ path[c].reason = path[c].cause)
    /\ path[c].st = "failed" => ~path[c].dated
    /\ path[c].st = "returned" => path[c].dated

\* the hit objects are in the order they were emitted in
InEmissionOrder ==
  \A a, b \in 1..Len(hitObjects) : a < b => hitObjects[a].line < hitObjects[b].line

\* the hit objects are in non-decreasing order of start time
InTimeOrder ==
  \A a, b \in 1..Len(hitObjects) :
    a < b => hitObjects[a].startTime <= hitObjects[b].startTime

\* every TimingPoints line of this decode has its group in the collection
AllGroupsCommitted ==
  \A k \in TimingLineNos : Slot(StartTime(k), "Sample") # {}

\* C12: in every decode the steps after the parse loop come in this order:
\* final flush, defaults, sort, storyboard.  Defaults are applied only when
\* every line is parsed, the pending buffer is empty and every group of this
\* decode is committed, and before the sort; the sort comes after the
\* defaults of every hit object and before the storyboard; no line is parsed
\* after the final flush.
C12_PostParseOrder ==
  [][calls' = calls =>
       /\ defaultsApplied' # defaultsApplied =>
            /\ i = Len(_lines)
            /\ pendingPoints = <<>>
            /\ AllGroupsCommitted
            /\ defaultsApplied' = HitLineNos
            /\ InEmissionOrder
            /\ ~storyboard.set
       /\ hitObjects' # hitObjects =>
            \/ /\ pc = "parse"
               /\ defaultsApplied = {}
            \/ /\ pc = "sort"
               /\ defaultsApplied = HitLineNos
               /\ pendingPoints = <<>>
               /\ ~storyboard.set
               /\ hitObjects' = SortHitObjects(hitObjects)
       /\ storyboard' # storyboard =>
            /\ defaultsApplied = HitLineNos
            /\ InTimeOrder
            /\ pendingPoints = <<>>
            /\ pc' = "returned"
       /\ i' # i => (pc = "parse" /\ defaultsApplied = {} /\ ~storyboard.set)
       /\ (pc # "returned" /\ pc' = "returned") =>
            (pendingPoints' = <<>> /\ defaultsApplied' = HitLineNos /\ InTimeOrder')]_vars

\* a decode whose last line is a hit object that follows a TimingPoints
\* line: the points of that line were in the buffer until the final flush
\* and are committed when the defaults are applied
C12_Witness ==
  /\ pc = "sort"
  /\ TimingLineNos # {}
  /\ defaultsApplied # {}
  /\ defaultsApplied = HitLineNos
  /\ AllGroupsCommitted
  /\ pendingPoints = <<>>

\* the section line k stands in: the name of the last section header before
\* it ("" = none)
SectionOf(k) ==
  LET headers == {j \in 1..(k - 1) : _lines[j].kind = "section"}
  IN  IF headers = {} THEN "" ELSE _lines[Max(headers)].name

\* the lines after the first that are not section headers and stand in an
\* enabled section
BodyLineNos ==
  {k \in 2..i : /\ _lines[k].kind # "section"
                /\ SectionOf(k) \in Sections
                /\ _enabledSections[SectionOf(k)]}

\* C13: the header line alone fixes the format version and the offset: no
\* line after the first changes beatmap.fileFormat or the offset, and every
\* later line of an enabled section that is not a section header is handed
\* to the handler of its section, also when it holds the text
\* 'osu file format v'.
C13_VersionFixedByHeader ==
  [][(calls' = calls /\ i >= 1 /\ i' = i + 1) =>
       /\ fileFormat' = fileFormat
       /\ _offset' = _offset
       /\ Len(dispatched') = Cardinality(BodyLineNos')]_vars

\* the positions in the pending buffer of the points of this kind
PendingOf(type) ==
  {k \in 1..Len(pendingPoints) : pendingPoints[k].pointType = type}

\* C14: after every step all points in the pending buffer were added with
\* the pending timestamp as their time; when a step changes the pending
\* timestamp, the buffer it found was flushed at the old timestamp (for each
\* kind, the latest buffered point is in the group at the old timestamp) and
\* the buffer then holds only points of the new time; no point is committed
\* under a time other than its own.
C14_BufferAtPendingTime ==
  [][/\ \A k \in 1..Len(pendingPoints') : pendingPoints'[k].time = pendingTime'
     /\ \A t \in Times, type \in Kinds :
          LET r == addControlPoint(Handler, Point(type, t + _offset, i + 1),
                                   t + _offset)
          IN  /\ r.pendingTime = t + _offset
              /\ \A k \in 1..Len(r.pendingPoints) :
                   r.pendingPoints[k].time = r.pendingTime
     /\ pendingTime' # pendingTime =>
          \A type \in Kinds :
            PendingOf(type) # {} =>
              [time |-> pendingTime,
               point |-> pendingPoints[Max(PendingOf(type))]] \in controlPoints'
     /\ \A e \in controlPoints' : e.time = e.point.time]_vars

\* a line at another time than the line before it was handled: the group of
\* the earlier line is committed and the buffer holds the points of the
\* later line only
C14_Witness ==
  /\ pc = "parse"
  /\ \E a, b \in TimingLineNos :
       /\ b = a + 1
       /\ StartTime(a) # StartTime(b)
       /\ pendingTime = StartTime(b)
       /\ pendingPoints # <<>>
       /\ \A k \in 1..Len(pendingPoints) : pendingPoints[k].line = b
       /\ Slot(StartTime(a), "Sample") = {Point("Sample", StartTime(a), a)}

\* the handler as flushPendingPoints leaves it when called now, committing
\* to the collection of the beatmap being decoded
Flushed == flushPendingPoints([Handler EXCEPT !.ref = "current"])

\* the slots a flush at the pending timestamp may write: those of the kinds
\* the buffer holds
FlushSlots(cp) ==
  {e \in cp : e.time = pendingTime /\ PendingOf(e.point.pointType) # {}}

\* C15: in every reachable state a call of flushPendingPoints commits, for
\* each kind in the buffer, the point of that kind pushed last and no other
\* point, at the pending timestamp; it touches no other slot, leaves the
\* buffer and the committed-kind markers empty and the pending timestamp as
\* it was; with an empty buffer it commits nothing.  Between flushes the
\* markers are empty.
C15_FlushCommitsLatestPerKind ==
  /\ pendingTypes = <<>>
  /\ FlushSlots(Flushed.cp) =
       {[time |-> pendingTime, point |-> pendingPoints[Max(PendingOf(type))]] :
          type \in {x \in Kinds : PendingOf(x) # {}}}
  /\ Flushed.cp \ FlushSlots(Flushed.cp) = controlPoints \ FlushSlots(controlPoints)
  /\ Flushed.pendingPoints = <<>>
  /\ Flushed.pendingTypes = <<>>
  /\ Flushed.pendingTime = pendingTime
  /\ pendingPoints = <<>> => Flushed.cp = controlPoints

\* the final flush found two uninherited lines of one time in the buffer:
\* the Timing point of the first was discarded
C15_Witness ==
  /\ pc = "defaults"
  /\ pendingPoints = <<>>
  /\ \E a, b \in TimingLineNos :
       /\ b = a + 1
       /\ b = Max(TimingLineNos)
       /\ StartTime(a) = StartTime(b)
       /\ Uninherited(a) /\ Uninherited(b)
       /\ Slot(StartTime(b), "Timing") = {Point("Timing", StartTime(b), b)}

\* C16: after a decode, for every start time whose lines are separated by
\* lines at other times (several flushes wrote its group) and for every
\* kind, the group holds the point of the last line at that time that
\* produced the kind.
C16_LaterFlushReplaces ==
  pc = "returned" =>
    \A t \in {StartTime(k) : k \in TimingLineNos} :
      ~Consecutive(t) =>
        \A type \in Kinds :
          LET producers == {k \in LinesAt(t) : Produces(k, type)}
          IN  producers # {} =>
                Slot(t, type) = {Point(type, t, Max(producers))}

\* lines at times t1, t2, t1, the first uninherited and the third inherited:
\* the second flush at t1 replaced the Sample point and left the Timing
\* point of the first line
C16_Witness ==
  /\ pc = "returned"
  /\ \E a, b, c \in TimingLineNos :
       /\ a < b /\ b < c
       /\ StartTime(a) = StartTime(c)
       /\ StartTime(a) # StartTime(b)
       /\ Uninherited(a) /\ ~Uninherited(c)
       /\ Slot(StartTime(a), "Sample") = {Point("Sample", StartTime(a), c)}
       /\ Slot(StartTime(a), "Timing") = {Point("Timing", StartTime(a), a)}

\* the TimingPoints line handleLine decoded last, and its text
HandledLineNo ==
  Max({k \in 1..i : _lines[k].kind = "content" /\ _lines[k].name = "TimingPoints"})
HandledData == _lines[HandledLineNo].data

\* the kinds of the points in a sequence, in order
KindsOf(points) == [k \in 1..Len(points) |-> points[k].pointType]

\* bit b of a number e >= 0
BitSet(e, b) == (e \div (2 ^ b)) % 2 = 1

\* C17: every TimingPoints line that passes validation pushes, all at its
\* start time and in the order Timing, Difficulty, Effect, Sample, one
\* Difficulty, one Effect and one Sample point, and a Timing point iff the
\* uninherited field is absent or is the text "1", whatever the sign of
\* beatLength; kiai is bit 0 and omitFirstBarLine bit 1 of the effects.
C17_LinePushes ==
  handled # <<>> =>
    LET data == HandledData
        n == Len(data)
        h == handled[1]
        uninherited == n < 7 \/ data[7] = "1"
        effects == IF n >= 8 THEN data[8] ELSE 0
        expected == (IF uninherited THEN <<"Timing">> ELSE <<>>)
                      \o <<"Difficulty", "Effect", "Sample">>
        m == Len(expected)
    IN  /\ KindsOf(h.points) = expected
        /\ \A k \in 1..m : h.points[k].time = data[1] + _offset
        /\ h.points[m - 1].value.kiai = BitSet(effects, 0)
        /\ h.points[m - 1].value.omitFirstBarLine = BitSet(effects, 1)
        /\ (pc = "parse" /\ i = HandledLineNo) =>
              /\ Len(pendingPoints) >= m
              /\ \A k \in 1..m :
                   pendingPoints[Len(pendingPoints) - m + k] =
                     Point(expected[k], data[1] + _offset, i)

\* an uninherited line with a negative beatLength and both effect bits set
\* was handled: four points were pushed, the Effect point with both flags
C17_Witness ==
  /\ handled # <<>>
  /\ pc = "parse"
  /\ Len(HandledData) >= 8
  /\ HandledData[7] = "1"
  /\ HandledData[2] < 0
  /\ HandledData[8] = 3
  /\ KindsOf(pendingPoints) = <<"Timing", "Difficulty", "Effect", "Sample">>
  /\ handled[1].points[3].value = [kiai |-> TRUE, omitFirstBarLine |-> TRUE]

\* C18: for a TimingPoints line of n fields, each optional field k in 2..7
\* is decoded from the line iff n > k and otherwise keeps its default (4,
\* None, 0, 100, true, None), for every n from 2 upward, n > 8 included.
C18_FieldPresence ==
  handled # <<>> =>
    LET data == HandledData
        n == Len(data)
        l == handled[1].locals
    IN  /\ n >= 2
        /\ l.timeSignature = IF n > 2 THEN data[3] ELSE 4
        /\ l.sampleSet = IF n > 3 THEN data[4] ELSE SampleSetNone
        /\ l.customIndex = IF n > 4 THEN data[5] ELSE 0
        /\ l.volume = IF n > 5 THEN data[6] ELSE 100
        /\ l.timingChange = IF n > 6 THEN data[7] = "1" ELSE TRUE
        /\ l.effects = IF n > 7 THEN data[8] ELSE EffectTypeNone

\* a line of nine fields was handled with all six optional fields decoded
C18_Witness ==
  /\ handled # <<>>
  /\ Len(HandledData) = 9
  /\ handled[1].locals.timeSignature = 3
  /\ handled[1].locals.volume = 70
  /\ handled[1].locals.effects = 3
  /\ ~handled[1].locals.timingChange

\* the Difficulty point handleLine built
HandledDifficulty ==
  LET points == handled[1].points
  IN  points[CHOOSE k \in 1..Len(points) : points[k].pointType = "Difficulty"]

\* the multipliers of the Difficulty point, given what the bpm multiplier is
\* clamped from: rounded(x) is the number the two clamps are applied to for
\* x = -beatLength
MultipliersAre(b, d, clamped) ==
  IF b < 0
  THEN /\ d.speedMultiplier = Quotient(Ms(100), -b)
       /\ d.bpmMultiplier = Quotient(MathMax(Ms(10), MathMin(clamped, Ms(10000))), Ms(100))
       /\ d.bpmMultiplier.den = Ms(100)
       /\ d.bpmMultiplier.num >= Ms(10) /\ d.bpmMultiplier.num <= Ms(10000)
       /\ (-b <= Ms(10)) => d.bpmMultiplier.num = Ms(10)
       /\ (-b >= Ms(10000)) => d.bpmMultiplier.num = Ms(10000)
  ELSE d.speedMultiplier = One /\ d.bpmMultiplier = One

\* C19 as stated: for every beatLength < 0 the Difficulty point gets
\* speedMultiplier = 100 / -beatLength and bpmMultiplier =
\* max(10, min(-beatLength, 10000)) / 100, in [0.1, 100], 0.1 for
\* -beatLength <= 10 and 100 for -beatLength >= 10000; for every
\* beatLength >= 0 both multipliers are 1.
C19_MultipliersAsStated ==
  handled # <<>> =>
    MultipliersAre(HandledData[2], HandledDifficulty.value, -HandledData[2])

\* a number of 1/Unit ms that a single-precision number holds: at most 24
\* significant binary digits
IsSingle(n) == BitLength(n) <= 24 \/ n % (2 ^ (BitLength(n) - 24)) = 0

Distance(a, b) == IF a < b THEN b - a ELSE a - b

\* r is a single-precision number nearest to x > 0
NearestSingle(r, x) ==
  LET ulp == 2 ^ MathMax(0, BitLength(x) - 24)
  IN  /\ IsSingle(r)
      /\ \A c \in (x - ulp)..(x + ulp) :
           IsSingle(c) => Distance(c, x) >= Distance(r, x)

\* C19 amended: the same, with the bpm multiplier clamped from -beatLength
\* rounded to the nearest single-precision number:
\* max(10, min(fround(-beatLength), 10000)) / 100.
C19_MultipliersRounded ==
  handled # <<>> =>
    LET b == HandledData[2]
        ulp == 2 ^ MathMax(0, BitLength(-b) - 24)
    IN  IF b < 0
        THEN \E r \in (-b - ulp)..(-b + ulp) :
               /\ NearestSingle(r, -b)
               /\ MultipliersAre(b, HandledDifficulty.value, r)
        ELSE MultipliersAre(b, HandledDifficulty.value, 0)

\* a negative beatLength between the clamps that single precision does not
\* hold was handled, and the bpm multiplier is that of the rounded value
C19_Witness ==
  /\ handled # <<>>
  /\ HandledData[2] = -(Ms(8192) + 1)
  /\ HandledDifficulty.value.bpmMultiplier = Quotient(Ms(8192), Ms(100))
  /\ HandledDifficulty.value.speedMultiplier = Quotient(Ms(100), Ms(8192) + 1)

\* a step of the parse-flush-defaults-sort transform of decodeFromLines
Transform ==
  \/ PathParseLine
  \/ FinalFlush
  \/ ApplyDefaults
  \/ SortStep
  \/ StoryboardStep

\* the calls of decodeFromPath that are inside decodeFromBuffer
Decoding == {c \in CallIds : path[c].st = "decoding"}

\* C20: when decodeFromPath calls overlap, every change of the decoder's or
\* the handler's state is a step of one sequential decodeFromLines: a decode
\* starts only when no other is under way, its steps are taken by the one
\* call that started it, that call reaches its next await only when the
\* decode has returned, and no call writes into a beatmap already returned.
\* So the decodes happen one after the other, as in a run without overlap.
C20_TransformsDoNotInterleave ==
  [][ /\ decoderVars' # decoderVars =>
           \/ /\ pc \in {"idle", "returned", "thrown"}
              /\ Decoding = {}
              /\ \E c \in CallIds :
                   /\ path[c].st = "reading"
                   /\ path'[c].st = "decoding"
                   /\ running' = c
              /\ \E data \in TimingPointsInputs : Reset(Undefined, data)
           \/ /\ running # 0
              /\ Decoding = {running}
              /\ Transform
      /\ \A c \in CallIds :
           (path[c].st = "decoding" /\ path'[c].st = "dating") =>
             (pc = "returned" /\ running = c /\ decoderVars' = decoderVars)
      /\ Cardinality(Decoding) <= 1
      /\ controlPointsRef = "returned" => pendingPoints = <<>>
    ]_vars

\* two calls overlap: the second call has decoded its file and awaits the
\* update date while the first, started earlier, is inside its transform
\* with points in the pending buffer
C20_Witness ==
  /\ impl = "core"
  /\ path[1].st = "decoding"
  /\ path[2].st = "dating"
  /\ running = 1
  /\ pc = "parse"
  /\ pendingPoints # <<>>

====
